---- MODULE Spec2Model ----
(***************************************************************************)
(* MAP-Elites archive of openelm/map_elites.py: the circular-buffer cell   *)
(* store (class Map) and the search loop of class MAPElites.               *)
(*                                                                         *)
(* Floats are modelled as integers; -inf and +inf are the two sentinels    *)
(* NegInf and PosInf, which order below and above every finite fitness.    *)
(* The behaviour space is one-dimensional (map_elites.py:147 reads only    *)
(* map_grid_size[0]); a phenotype is a tuple <<x>> and None is <<>>.       *)
(***************************************************************************)
EXTENDS Integers, Sequences, FiniteSets, TLC

\* ---------------------------------------------------------------- bounds
MaxHistoryLength == 2
GridSize == 2
MaxFitness == 2
MaxSteps == 2
MaxBatch == 2
MaxSearches == 2
MaxAtol == 1
RecycledCapacity == 2
MaxWrites == 4
MaxEvals == 3

\* ------------------------------------------------------------ the values
NegInf == -99
PosInf == 99

isinfPositiveOnly(x) == x = PosInf

isinf(x) == x = NegInf \/ x = PosInf

isfinite(x) == ~isinf(x)

FiniteFitness == 0..MaxFitness
FitnessValues == FiniteFitness \cup {NegInf, PosInf}

\* env.behavior_space: one (min, max) pair, here (0, GridSize), so that the
\* cut points of np.linspace are integers.
behavior_min == 0
behavior_max == behavior_min + GridSize

\* Phenotypes: None (<<>>) or one float within the declared bounds.
PhenotypeValues == {<<>>} \cup {<<x>> : x \in behavior_min..behavior_max}

\* Objects held by the genome store, the recycle buffer and max_genome.
\* tag "genome": a Genotype of the environment; "none": Python None;
\* "fill": the 0.0 fill value of the genome store.
\* A genome whose fitness is infinite never has its phenotype computed (line
\* 233); the model gives such genomes two phenotypes, None and a mappable one.
Genotype ==
    [tag : {"genome"}, fit : FiniteFitness, ph : PhenotypeValues]
    \cup [tag : {"genome"}, fit : {NegInf, PosInf}, ph : {<<>>, <<behavior_min>>}]
None == [tag |-> "none", fit |-> NegInf, ph |-> <<>>]
GenomeFill == [tag |-> "fill", fit |-> NegInf, ph |-> <<>>]

\* env.fitness(individual) and individual.to_phenotype()
env_fitness(g) == g.fit
to_phenotype(g) == g.ph
env_max_fitness == MaxFitness

\* np.isclose(a, b, atol=atol) for integer-valued a, b: rtol * |b| < 1, and
\* an infinite a is close to no finite b.
Abs(x) == IF x < 0 THEN -x ELSE x
isclose(a, b, tol) == isfinite(a) /\ isfinite(b) /\ Abs(a - b) <= tol

\* ------------------------------------------------------------ class Map
Cells(dims) == {<<b>> : b \in 0..(dims[1] - 1)}
Slots(h) == 0..(h - 1)

\* Map.__init__
MapInit(dims, fill_value, history_length) ==
    [history_length |-> history_length,
     dims |-> dims,
     top |-> [c \in Cells(dims) |-> history_length - 1],
     array |-> [s \in Slots(history_length) |-> [c \in Cells(dims) |-> fill_value]],
     empty |-> TRUE]

\* Indexing a numpy array of shape dims with the tuple map_ix: an index i of
\* a dimension of size n raises IndexError unless -n <= i < n, and a negative
\* index in that range counts from the end.
IndexError(dims, map_ix) == map_ix[1] >= dims[1] \/ map_ix[1] < -dims[1]
np_index(dims, map_ix) ==
    <<IF map_ix[1] < 0 THEN map_ix[1] + dims[1] ELSE map_ix[1]>>

\* Map.__getitem__ (for an index that does not raise)
MapGetItem(m, map_ix) ==
    LET c == np_index(m.dims, map_ix)
    IN IF m.history_length = 1
       THEN m.array[0][c]
       ELSE m.array[m.top[c]][c]

MapSetItemTopNotStored(m, map_ix, value) ==
    LET c == np_index(m.dims, map_ix)
    IN IF IndexError(m.dims, map_ix)
       THEN [m EXCEPT !.empty = FALSE]
       ELSE IF m.history_length = 1
       THEN [m EXCEPT !.empty = FALSE, !.array[0][c] = value]
       ELSE LET top_val == (m.top[c] + 1) % m.history_length
            IN [m EXCEPT !.empty = FALSE,
                         !.array[top_val][c] = value]

\* Map.__setitem__: self.empty is cleared before the array is indexed, so a
\* write that raises IndexError still marks the store non-empty.
MapSetItem(m, map_ix, value) ==
    LET c == np_index(m.dims, map_ix)
    IN IF IndexError(m.dims, map_ix)
       THEN [m EXCEPT !.empty = FALSE]
       ELSE IF m.history_length = 1
       THEN [m EXCEPT !.empty = FALSE, !.array[0][c] = value]
       ELSE LET top_val == (m.top[c] + 1) % m.history_length
            IN [m EXCEPT !.empty = FALSE,
                         !.top[c] = top_val,
                         !.array[top_val][c] = value]

\* Map.map_size
map_size(m) == Cardinality(Cells(m.dims))

\* all (slot, cell) positions of self.array
Positions(m) == Slots(m.history_length) \X Cells(m.dims)

RECURSIVE SumOver(_, _)
SumOver(m, ps) ==
    IF ps = {} THEN 0
    ELSE LET p == CHOOSE q \in ps : TRUE
         IN m.array[p[1]][p[2]] + SumOver(m, ps \ {p})

\* Map.qd_score: self.array[np.isfinite(self.array)].sum()
Map_qd_score(m) ==
    SumOver(m, {p \in Positions(m) : isfinite(m.array[p[1]][p[2]])})

\* Map.niches_filled: np.count_nonzero(np.isfinite(self.array))
Map_niches_filled(m) ==
    Cardinality({p \in Positions(m) : isfinite(m.array[p[1]][p[2]])})

\* Map.maximum: self.array.max()
Map_maximum(m) ==
    CHOOSE v \in {m.array[p[1]][p[2]] : p \in Positions(m)} :
        \A p \in Positions(m) : m.array[p[1]][p[2]] <= v

\* ------------------------------------------------------ class MAPElites
VARIABLES
    history_length,     \* self.history_length
    save_history,       \* self.save_history
    history,            \* self.history: cell -> candidates routed to it
    fitnesses,          \* self.fitnesses: Map of float, fill -inf
    genomes,            \* self.genomes: Map of object, fill 0.0
    nonzero,            \* self.nonzero: Map of bool, fill False
    recycled,           \* self.recycled
    recycled_count,     \* self.recycled_count
    current_max_genome, \* self.current_max_genome
    pc,                 \* position in search(): idle, loop, batch, done, error
    init_steps,         \* arguments of the running search()
    total_steps,
    atol,
    n_steps,            \* search() locals
    max_fitness,
    max_genome,
    pending,            \* elements of new_individuals not yet iterated
    batch,              \* the last batch handed to env.mutate
    individual,         \* loop variable of the per-candidate loop
    searches,           \* number of search() calls started
    evaluated,          \* number of env.fitness calls made
    requests,           \* env.random / env.mutate calls of the running search()
    requested,          \* the last of them: "none", "random" or "mutate"
    store,              \* a stand-alone Map under test
    written,            \* per cell, the values written to store, in order
    writes,             \* number of operations applied to store
    b_in,               \* the last phenotype handed to to_mapindex
    b_ix,               \* what to_mapindex returned for it
    ix_in,              \* the last index used on store
    raised,             \* whether the last operation on store raised
    got                 \* what the last read of store returned

vars == <<history_length, save_history, history, fitnesses, genomes, nonzero,
          recycled, recycled_count, current_max_genome, pc, init_steps,
          total_steps, atol, n_steps, max_fitness, max_genome, pending, batch,
          individual, searches, evaluated, requests, requested, store,
          written, writes, b_in, b_ix, ix_in, raised, got>>

archive == <<fitnesses, genomes, nonzero>>
config == <<history_length, save_history>>
args == <<init_steps, total_steps, atol>>
calls == <<requests, requested>>
probe == <<b_in, b_ix, ix_in, raised, got>>
harness == <<store, written, writes, probe>>

map_grid_size == <<GridSize>>
batch_size == MaxBatch
AllCells == Cells(map_grid_size)

\* self.bins: np.linspace(min, max, g + 1)[1:-1], the g - 1 interior cut points
bins == [k \in 1..(GridSize - 1) |->
            behavior_min + (k * (behavior_max - behavior_min)) \div GridSize]

digitizeRight(x, bs) == Cardinality({k \in DOMAIN bs : bs[k] < x})

\* np.digitize(x, bins): the number of cut points that are <= x
digitize(x, bs) == Cardinality({k \in DOMAIN bs : bs[k] <= x})

to_mapindexNoneToZero(b) ==
    <<digitize(IF b = <<>> THEN behavior_min ELSE b[1], bins)>>

\* MAPElites.to_mapindex; the undefined index None is <<>>
to_mapindex(b) == IF b = <<>> THEN <<>> ELSE <<digitize(b[1], bins)>>

\* np.flatnonzero(self.nonzero.array): what random_selection samples from
flatnonzero == {c \in AllCells : nonzero.array[0][c]}

\* A fitness store handed in as init_map: a Map built by the caller with the
\* archive's dimensions, into which one finite fitness has been written.
InitFitness == {1}
InitMaps(h) ==
    {MapSetItem(MapInit(map_grid_size, NegInf, h), c, v) :
        c \in AllCells, v \in InitFitness}

\* MAPElites.__init__ with init_map = None
InitFresh(h, sh) ==
    /\ history_length = h
    /\ save_history = sh
    /\ history = [c \in AllCells |-> <<>>]
    /\ fitnesses = MapInit(map_grid_size, NegInf, h)
    /\ genomes = MapInit(map_grid_size, GenomeFill, h)
    /\ nonzero = MapInit(map_grid_size, FALSE, 1)
    /\ recycled = [j \in 1..RecycledCapacity |-> None]
    /\ recycled_count = 0

\* MAPElites.__init__ with a pre-existing fitness store
InitResume(h, sh, init_map) ==
    /\ history_length = h
    /\ save_history = sh
    /\ history = [c \in AllCells |-> <<>>]
    /\ fitnesses = init_map
    /\ genomes = MapInit(fitnesses.dims, GenomeFill, h)
    /\ nonzero = MapInit(fitnesses.dims, FALSE, 1)
    /\ recycled = [j \in 1..RecycledCapacity |-> None]
    /\ recycled_count = 0

NoSearch ==
    /\ pc = "idle"
    /\ current_max_genome = None
    /\ init_steps = 0 /\ total_steps = 0 /\ atol = 0
    /\ n_steps = 0 /\ max_fitness = NegInf /\ max_genome = None
    /\ pending = 0 /\ batch = <<>> /\ individual = None
    /\ searches = 0
    /\ evaluated = 0
    /\ requests = 0 /\ requested = "none"

NoProbe ==
    /\ b_in = <<>> /\ b_ix = <<>> /\ ix_in = <<>>
    /\ raised = FALSE
    /\ got = NegInf

NoHarness ==
    /\ store = MapInit(map_grid_size, NegInf, 1)
    /\ written = [c \in AllCells |-> <<>>]
    /\ writes = 0
    /\ NoProbe

Init ==
    /\ \E h \in 1..MaxHistoryLength, sh \in BOOLEAN :
          \/ InitFresh(h, sh)
          \/ \E init_map \in InitMaps(h) : InitResume(h, sh, init_map)
    /\ NoSearch
    /\ NoHarness

\* search(init_steps, total_steps, atol): lines 204-208
SearchBegin(is, ts, tol) ==
    /\ pc \in {"idle", "done"}
    /\ searches < MaxSearches
    /\ searches' = searches + 1
    /\ init_steps' = is /\ total_steps' = ts /\ atol' = tol
    /\ n_steps' = 0
    /\ max_fitness' = NegInf
    /\ max_genome' = None
    /\ history' = IF save_history THEN [c \in AllCells |-> <<>>] ELSE history
    /\ pending' = 0 /\ batch' = <<>> /\ individual' = None
    /\ requests' = 0 /\ requested' = "none"
    /\ pc' = "loop"
    /\ UNCHANGED <<config, archive, recycled, recycled_count,
                   current_max_genome, evaluated, harness>>

trangeInclusive(total) == 0..total

\* line 204: trange(int(total_steps)), the values n_steps runs through
trange(total) == 0..(total - 1)

UseRandomInitOnly == n_steps < init_steps

UseRandomEmptyOnly == genomes.empty

\* line 211: the condition that sends an iteration to env.random()
UseRandom == n_steps < init_steps \/ genomes.empty

\* The per-candidate loop over a list of k elements starts; an empty list ends
\* the iteration at once.  The environment is a black box: the elements of
\* its list are drawn from Genotype when the loop reaches them.  Over a whole
\* run the environment hands out at most MaxEvals candidates.
StartBatch(k) ==
    /\ evaluated + k <= MaxEvals
    /\ pending' = k
    /\ IF k = 0
       THEN pc' = "loop" /\ n_steps' = n_steps + 1
       ELSE pc' = "batch" /\ n_steps' = n_steps

\* lines 210-215: new_individuals = self.env.random()
RandomBatch(k) ==
    /\ pc = "loop"
    /\ n_steps \in trange(total_steps)
    /\ UseRandom
    /\ requests' = requests + 1 /\ requested' = "random"
    /\ StartBatch(k)
    /\ UNCHANGED <<config, history, archive, recycled, recycled_count,
                   current_max_genome, args, max_fitness, max_genome, batch,
                   individual, searches, evaluated, harness>>

\* lines 216-223: batch_size calls of random_selection, then env.mutate(batch).
\* np.random.choice raises on an empty array, which ends search() in error.
MutateBatch(k) ==
    /\ pc = "loop"
    /\ n_steps \in trange(total_steps)
    /\ ~UseRandom
    /\ IF flatnonzero = {}
       THEN /\ pc' = "error"
            /\ UNCHANGED <<pending, n_steps, batch, calls>>
       ELSE /\ \E sel \in [1..batch_size -> flatnonzero] :
                  batch' = [j \in 1..batch_size |-> MapGetItem(genomes, sel[j])]
            /\ requests' = requests + 1 /\ requested' = "mutate"
            /\ StartBatch(k)
    /\ UNCHANGED <<config, history, archive, recycled, recycled_count,
                   current_max_genome, args, max_fitness, max_genome,
                   individual, searches, evaluated, harness>>

AdvanceNoBreak(brk) ==
    /\ pending' = pending - 1
    /\ IF pending = 1
       THEN pc' = "loop" /\ n_steps' = n_steps + 1
       ELSE pc' = "batch" /\ n_steps' = n_steps

\* The per-candidate loop moves on: `continue` (brk = FALSE) or `break`.  In
\* both cases the loop left is the inner one; the outer loop goes to its next
\* iteration when the list is exhausted or the inner loop is broken.  After a
\* `break`, pending counts the elements of the list that were never visited.
Advance(brk) ==
    /\ pending' = pending - 1
    /\ IF brk \/ pending = 1
       THEN pc' = "loop" /\ n_steps' = n_steps + 1
       ELSE pc' = "batch" /\ n_steps' = n_steps

\* lines 229-233: infinite fitness, `continue`
Discard(g) ==
    /\ pc = "batch"
    /\ individual' = g
    /\ evaluated' = evaluated + 1
    /\ isinf(env_fitness(g))
    /\ Advance(FALSE)
    /\ UNCHANGED <<config, history, archive, recycled, recycled_count,
                   current_max_genome, args, max_fitness, max_genome, batch,
                   searches, calls, harness>>

RecycleSlotCountFirst(count, buffer) == ((count + 1) % Len(buffer)) + 1

\* line 238: the position written, self.recycled_count % len(self.recycled)
\* (sequences are 1-based)
RecycleSlot(count, buffer) == (count % Len(buffer)) + 1

\* lines 234-240: the map index is None, the candidate goes to the recycle bin
Recycle(g) ==
    /\ pc = "batch"
    /\ individual' = g
    /\ evaluated' = evaluated + 1
    /\ ~isinf(env_fitness(g))
    /\ to_mapindex(to_phenotype(g)) = <<>>
    /\ recycled' = [recycled EXCEPT ![RecycleSlot(recycled_count, recycled)] = g]
    /\ recycled_count' = recycled_count + 1
    /\ Advance(FALSE)
    /\ UNCHANGED <<config, history, archive, current_max_genome, args,
                   max_fitness, max_genome, batch, searches, calls, harness>>

ReplacesOnTie(fitness, old) == fitness >= old

ReplacesWhenDifferent(fitness, old) == fitness # old

\* line 248: the replacement test
Replaces(fitness, old) == fitness > old

ImprovesOnTie(fitness, best) == fitness >= best

\* line 252: the global-best test
Improves(fitness, best) == fitness > best

\* lines 242-259: history, filled flag, elitist replacement, global best,
\* early-stop test
Insert(g) ==
    LET fitness == env_fitness(g)
        map_ix == to_mapindex(to_phenotype(g))
        better == Improves(fitness, max_fitness)
        new_max == IF better THEN fitness ELSE max_fitness
    IN  /\ pc = "batch"
        /\ individual' = g
        /\ evaluated' = evaluated + 1
        /\ ~isinf(fitness)
        /\ map_ix # <<>>
        /\ history' = IF save_history
                      THEN [history EXCEPT ![map_ix] = Append(@, g)]
                      ELSE history
        /\ nonzero' = MapSetItem(nonzero, map_ix, TRUE)
        /\ IF Replaces(fitness, MapGetItem(fitnesses, map_ix))
           THEN /\ fitnesses' = MapSetItem(fitnesses, map_ix, fitness)
                /\ genomes' = MapSetItem(genomes, map_ix, g)
           ELSE UNCHANGED <<fitnesses, genomes>>
        /\ max_fitness' = new_max
        /\ max_genome' = IF better THEN g ELSE max_genome
        /\ Advance(isclose(new_max, env_max_fitness, atol))
        /\ UNCHANGED <<config, recycled, recycled_count, current_max_genome,
                       args, batch, searches, calls, harness>>

\* lines 261-262: the outer loop is exhausted; search() returns and its
\* arguments and locals are gone.
SearchEnd ==
    /\ pc = "loop"
    /\ n_steps \notin trange(total_steps)
    /\ current_max_genome' = max_genome
    /\ pc' = "done"
    /\ init_steps' = 0 /\ total_steps' = 0 /\ atol' = 0
    /\ n_steps' = 0 /\ max_fitness' = NegInf /\ max_genome' = None
    /\ pending' = 0 /\ batch' = <<>> /\ individual' = None
    /\ requests' = 0 /\ requested' = "none"
    /\ UNCHANGED <<config, history, archive, recycled, recycled_count,
                   searches, evaluated, harness>>

Next ==
    \/ \E is \in 0..MaxSteps, ts \in 0..MaxSteps, tol \in 0..MaxAtol :
          SearchBegin(is, ts, tol)
    \/ \E k \in 0..MaxBatch : RandomBatch(k)
    \/ \E k \in 0..MaxBatch : MutateBatch(k)
    \/ \E g \in Genotype : Discard(g)
    \/ \E g \in Genotype : Recycle(g)
    \/ \E g \in Genotype : Insert(g)
    \/ SearchEnd

Spec == Init /\ [][Next]_vars

\* MAPElites.niches_filled, maximum_fitness, qd_score
niches_filled == Map_niches_filled(fitnesses)
maximum_fitness == Map_maximum(fitnesses)
qd_score == Map_qd_score(fitnesses)

\* Archives constructed without init_map only.
InitFreshOnly ==
    /\ \E h \in 1..MaxHistoryLength, sh \in BOOLEAN : InitFresh(h, sh)
    /\ NoSearch
    /\ NoHarness

SpecFresh == InitFreshOnly /\ [][Next]_vars

\* The steps search() takes by itself once called: the environment returns
\* from every call with a finite list, and the loops run on.
SearchStep ==
    \/ \E k \in 0..MaxBatch : RandomBatch(k)
    \/ \E k \in 0..MaxBatch : MutateBatch(k)
    \/ \E g \in Genotype : Discard(g)
    \/ \E g \in Genotype : Recycle(g)
    \/ \E g \in Genotype : Insert(g)
    \/ SearchEnd

SpecLive == InitFreshOnly /\ [][Next]_vars /\ WF_vars(SearchStep)

\* ------------------------------------------- a Map on its own, under writes
StoreFill == NegInf

InitStore ==
    /\ InitFresh(1, FALSE)
    /\ NoSearch
    /\ \E h \in 1..MaxHistoryLength : store = MapInit(map_grid_size, StoreFill, h)
    /\ written = [c \in AllCells |-> <<>>]
    /\ writes = 0
    /\ NoProbe

\* store[map_ix] = value
StoreWrite(map_ix, value) ==
    /\ writes < MaxWrites
    /\ store' = MapSetItem(store, map_ix, value)
    /\ written' = [written EXCEPT ![map_ix] = Append(@, value)]
    /\ writes' = writes + 1
    /\ UNCHANGED <<config, history, archive, recycled, recycled_count,
                   current_max_genome, pc, args, n_steps, max_fitness,
                   max_genome, pending, batch, individual, searches, evaluated,
                   calls, probe>>

NextStore == \E map_ix \in AllCells, value \in FiniteFitness : StoreWrite(map_ix, value)

SpecStore == InitStore /\ [][NextStore]_vars

\* ------------------- construction, indexing and discretization on their own
\* A constructor that raised leaves no object.
NoMap == [history_length |-> 0, dims |-> <<>>, top |-> <<>>, array |-> <<>>,
          empty |-> TRUE]

\* Map.__init__ has no check of history_length: the only failure is that of
\* np.full (line 52) for a negative dimension.  history_length = 0 takes the
\* else branch and builds an array with no history slot.
MapInitRaises(dims, h) == h < 0

ConstructorHistoryLengths == (0 - 1)..MaxHistoryLength
StoreIndices == {<<i>> : i \in (0 - GridSize - 1)..GridSize}
ProbePhenotypes ==
    {<<>>} \cup {<<x>> : x \in (behavior_min - 2)..(behavior_max + 2)}

\* MAPElites(env, map_grid_size, history_length = h) and
\* Map(map_grid_size, fill, history_length = h)
InitIndex ==
    /\ NoSearch
    /\ written = [c \in AllCells |-> <<>>]
    /\ writes = 0
    /\ b_in = <<>> /\ b_ix = <<>> /\ ix_in = <<>> /\ got = NegInf
    /\ \E h \in ConstructorHistoryLengths :
          IF MapInitRaises(map_grid_size, h)
          THEN /\ raised = TRUE
               /\ history_length = h /\ save_history = FALSE
               /\ history = [c \in AllCells |-> <<>>]
               /\ fitnesses = NoMap /\ genomes = NoMap /\ nonzero = NoMap
               /\ recycled = <<>> /\ recycled_count = 0
               /\ store = NoMap
          ELSE /\ raised = FALSE
               /\ InitFresh(h, FALSE)
               /\ store = MapInit(map_grid_size, StoreFill, h)

\* The operations below are applied to a store that can hold a value.
Usable == store # NoMap /\ store.history_length >= 1 /\ writes < MaxWrites

Frozen ==
    UNCHANGED <<config, history, archive, recycled, recycled_count,
                current_max_genome, pc, args, n_steps, max_fitness,
                max_genome, pending, batch, individual, searches, evaluated,
                calls>>

Record(map_ix, value) ==
    IF IndexError(store.dims, map_ix)
    THEN written
    ELSE [written EXCEPT ![np_index(store.dims, map_ix)] = Append(@, value)]

\* store[map_ix] = value, for any integer index
StoreWriteAt(map_ix, value) ==
    /\ Usable
    /\ ix_in' = map_ix
    /\ raised' = IndexError(store.dims, map_ix)
    /\ store' = MapSetItem(store, map_ix, value)
    /\ written' = Record(map_ix, value)
    /\ writes' = writes + 1
    /\ UNCHANGED <<b_in, b_ix, got>>
    /\ Frozen

\* store[map_ix], for any integer index
StoreReadAt(map_ix) ==
    /\ Usable
    /\ ix_in' = map_ix
    /\ raised' = IndexError(store.dims, map_ix)
    /\ got' = IF IndexError(store.dims, map_ix) THEN got
              ELSE MapGetItem(store, map_ix)
    /\ writes' = writes + 1
    /\ UNCHANGED <<store, written, b_in, b_ix>>
    /\ Frozen

\* map_ix = to_mapindex(b), then store[map_ix] = value unless map_ix is None
\* (lines 234-250)
StoreWritePhenotype(b, value) ==
    LET map_ix == to_mapindex(b)
    IN  /\ Usable
        /\ b_in' = b
        /\ b_ix' = map_ix
        /\ writes' = writes + 1
        /\ IF map_ix = <<>>
           THEN UNCHANGED <<store, written, ix_in, raised>>
           ELSE /\ ix_in' = map_ix
                /\ raised' = IndexError(store.dims, map_ix)
                /\ store' = MapSetItem(store, map_ix, value)
                /\ written' = Record(map_ix, value)
        /\ UNCHANGED got
        /\ Frozen

NextIndex ==
    \/ \E map_ix \in StoreIndices, value \in FiniteFitness : StoreWriteAt(map_ix, value)
    \/ \E map_ix \in StoreIndices : StoreReadAt(map_ix)
    \/ \E b \in ProbePhenotypes, value \in FiniteFitness : StoreWritePhenotype(b, value)

SpecIndex == InitIndex /\ [][NextIndex]_vars

\* ----------------------------------------------------------- the claims
\* The candidate handled by the last step of the per-candidate loop.
Mappable(g) ==
    g.tag = "genome" /\ isfinite(env_fitness(g)) /\ to_mapindex(to_phenotype(g)) # <<>>
Unmappable(g) ==
    g.tag = "genome" /\ isfinite(env_fitness(g)) /\ to_mapindex(to_phenotype(g)) = <<>>
IxOf(g) == to_mapindex(to_phenotype(g))

\* C1: a step of the per-candidate loop that handles a candidate of finite
\* fitness f mapped to niche i reading f0 makes fitness[i] and genome[i] the
\* candidate's when f > f0, and leaves both stores as they were when f <= f0.
ElitistReplacement ==
    [][(pc = "batch" /\ Mappable(individual')) =>
         LET g == individual'
             f == env_fitness(g)
             i == IxOf(g)
             f0 == MapGetItem(fitnesses, i)
         IN IF f > f0
            THEN /\ MapGetItem(fitnesses', i) = f
                 /\ MapGetItem(genomes', i) = g
            ELSE /\ fitnesses' = fitnesses
                 /\ genomes' = genomes]_vars

\* C1 witness: a candidate tied with the incumbent of its niche was handled
\* and the incumbent, a different genome, is still there.
TieKeptIncumbent ==
    /\ pc \in {"batch", "loop"}
    /\ Mappable(individual)
    /\ env_fitness(individual) = MapGetItem(fitnesses, IxOf(individual))
    /\ MapGetItem(genomes, IxOf(individual)).tag = "genome"
    /\ MapGetItem(genomes, IxOf(individual)) # individual

\* C2: once the global best is within atol of env.max_fitness after a
\* candidate, search() is over: from the head of the outer loop the only step
\* is the return, no further batch is requested.
EarlyStopEndsSearch ==
    [][(pc = "loop" /\ isclose(max_fitness, env_max_fitness, atol)) =>
         pc' = "done"]_vars

\* C3: for every cell, the fitness read is finite iff the filled flag is set.
FilledIffFinite ==
    \A c \in AllCells :
        isfinite(MapGetItem(fitnesses, c)) <=> MapGetItem(nonzero, c)

\* C4: for every cell whose fitness read is finite, the genome read is a
\* candidate with exactly that fitness, and no retained slot of the cell
\* holds a higher fitness.
FitnessGenomeAgree ==
    \A c \in AllCells :
        isfinite(MapGetItem(fitnesses, c)) =>
            /\ MapGetItem(genomes, c).tag = "genome"
            /\ env_fitness(MapGetItem(genomes, c)) = MapGetItem(fitnesses, c)
            /\ \A sl \in Slots(fitnesses.history_length) :
                   fitnesses.array[sl][c] <= MapGetItem(fitnesses, c)

\* C5: no step lowers the fitness read at any niche.
FitnessMonotone ==
    [][\A c \in AllCells :
          MapGetItem(fitnesses', c) >= MapGetItem(fitnesses, c)]_vars

\* C5 witness: in a second search() on the same archive a candidate worse
\* than the incumbent of its niche was handled.
WorseCandidateInSecondSearch ==
    /\ searches = 2
    /\ pc \in {"batch", "loop"}
    /\ Mappable(individual)
    /\ env_fitness(individual) < MapGetItem(fitnesses, IxOf(individual))

\* C6: reading a cell of a Map returns the fill value if the cell was never
\* written and the value of the latest write to that cell otherwise.
ReadLatest ==
    \A c \in AllCells :
        MapGetItem(store, c) =
            IF written[c] = <<>> THEN StoreFill ELSE written[c][Len(written[c])]

\* C6 witness: a cell of a Map with history has been written history_length + 1
\* times, with a last value that differs from the first.
WroteAroundBuffer ==
    \E c \in AllCells :
        /\ store.history_length > 1
        /\ Len(written[c]) = store.history_length + 1
        /\ written[c][1] # written[c][Len(written[c])]

RECURSIVE SumTop(_)
SumTop(cs) ==
    IF cs = {} THEN 0
    ELSE LET c == CHOOSE x \in cs : TRUE
         IN MapGetItem(fitnesses, c) + SumTop(cs \ {c})

\* C7: qd_score() is the sum of the current fitness over the filled niches,
\* each counted once.
QDScoreAdditive ==
    qd_score = SumTop({c \in AllCells : MapGetItem(nonzero, c)})

\* C8: niches_filled() is the number of cells whose current fitness is finite,
\* which is the number of filled cells and at most the map size.
NichesFilledCount ==
    /\ niches_filled = Cardinality({c \in AllCells : isfinite(MapGetItem(fitnesses, c))})
    /\ niches_filled = Cardinality({c \in AllCells : MapGetItem(nonzero, c)})
    /\ niches_filled <= map_size(fitnesses)

\* C9: random_selection() is only reached with at least one filled cell, and
\* search() never ends in the error of sampling from an empty set.
SelectionGuard ==
    /\ pc # "error"
    /\ (pc = "loop" /\ n_steps < total_steps /\ ~UseRandom) => flatnonzero # {}

\* C9 witness: with init_steps = 0 a batch of elites was selected and mutated.
MutatedWithoutInitSteps ==
    /\ init_steps = 0
    /\ batch # <<>>
    /\ pc = "batch"

\* C10: an unmappable candidate is stored at position recycled_count mod
\* capacity and recycled_count grows by one, nothing else in the buffer
\* changes, and the buffer keeps its capacity as its length.
RecycleBounded ==
    /\ [](Len(recycled) = RecycledCapacity)
    /\ [](Cardinality({j \in 1..RecycledCapacity : recycled[j] # None})
            = IF recycled_count < RecycledCapacity
              THEN recycled_count ELSE RecycledCapacity)
    /\ [][(pc = "batch" /\ Unmappable(individual')) =>
            /\ recycled_count' = recycled_count + 1
            /\ recycled'[(recycled_count % RecycledCapacity) + 1] = individual'
            /\ \A j \in 1..RecycledCapacity :
                  j # (recycled_count % RecycledCapacity) + 1
                      => recycled'[j] = recycled[j]]_vars
    /\ [][(pc = "batch" /\ ~Unmappable(individual')) =>
            UNCHANGED <<recycled, recycled_count>>]_vars

\* C10 witness: more unmappable candidates than the buffer holds were
\* recycled, the latest one over the oldest entry.
RecycledWrapped ==
    /\ recycled_count > RecycledCapacity
    /\ Unmappable(individual)
    /\ recycled[((recycled_count - 1) % RecycledCapacity) + 1] = individual

\* C11: when a first search() on an archive built without init_map is about
\* to return, the global best fitness is maximum_fitness() (both -inf when
\* nothing was inserted), the global best genome is the genome stored at its
\* niche and becomes current_max_genome, and the global best changes only on
\* a candidate of strictly higher fitness.
BestRetained ==
    /\ []((searches = 1 /\ pc = "loop" /\ n_steps >= total_steps) =>
             /\ max_fitness = maximum_fitness
             /\ (max_genome = None <=> max_fitness = NegInf)
             /\ max_genome # None =>
                   /\ Mappable(max_genome)
                   /\ env_fitness(max_genome) = max_fitness
                   /\ MapGetItem(genomes, IxOf(max_genome)) = max_genome)
    /\ [][(pc = "loop" /\ pc' = "done") => current_max_genome' = max_genome]_vars
    /\ [][(pc = "batch" /\ (max_genome' # max_genome \/ max_fitness' # max_fitness)) =>
             /\ Mappable(individual')
             /\ env_fitness(individual') > max_fitness
             /\ max_fitness' = env_fitness(individual')
             /\ max_genome' = individual']_vars

\* C11 witness: a first search is about to return after a candidate tied with
\* the global best; the earlier genome is still the best.
BestTieKeptEarliest ==
    /\ searches = 1
    /\ pc = "loop"
    /\ n_steps >= total_steps
    /\ Mappable(individual)
    /\ env_fitness(individual) = max_fitness
    /\ max_genome # individual
    /\ max_genome # None

\* C12: to_mapindex maps None to None and a phenotype x to one bin index k in
\* [0, GridSize), the one with x at or above the cut point below bin k (if
\* any) and under the cut point above it (if any): a cut point belongs to the
\* bin it opens, values under the first cut go to bin 0, values from the last
\* cut on go to the last bin, and writing the store at the index raises nothing.
ToMapIndexInBounds ==
    /\ b_in = <<>> => b_ix = <<>>
    /\ b_in # <<>> =>
          /\ b_ix \in AllCells
          /\ LET x == b_in[1]
                 k == b_ix[1]
             IN /\ (k > 0 => bins[k] <= x)
                /\ (k < GridSize - 1 => x < bins[k + 1])
          /\ ix_in = b_ix => ~raised

\* C12 witness: a phenotype above the declared maximum went to the last bin
\* and the store was written there.
AboveMaximumInLastBin ==
    /\ b_in = <<behavior_max + 1>>
    /\ b_ix = <<GridSize - 1>>
    /\ ix_in = b_ix
    /\ ~raised
    /\ written[b_ix] # <<>>
    /\ MapGetItem(store, b_ix) = written[b_ix][Len(written[b_ix])]

\* C13: an access of the store with an index outside [0, GridSize) raised.
OutOfBoundsRejected ==
    (ix_in # <<>> /\ (ix_in[1] < 0 \/ ix_in[1] >= GridSize)) => raised

\* C14: no store and no archive exists with history_length < 1: constructing
\* with such a length raised.
ConstructionValidated ==
    history_length < 1 =>
        /\ raised
        /\ store = NoMap
        /\ fitnesses = NoMap

\* C15: an iteration of search() requests env.random() when n < init_steps or
\* the genome store was never written, and otherwise makes batch_size niche
\* selections among the filled niches, reads the genome at each and requests
\* env.mutate once with that batch; each iteration makes exactly one request,
\* and none is made while the candidates are processed.  The genome store's
\* empty flag is true exactly while no slot has been written and never turns
\* true again.
ProductionRule ==
    /\ [](genomes.empty <=>
             \A c \in AllCells, k \in Slots(genomes.history_length) :
                 genomes.array[k][c] = GenomeFill)
    /\ [][~genomes.empty => ~genomes'.empty]_vars
    /\ [][(pc = "loop" /\ n_steps < total_steps) =>
             /\ requests' = requests + 1
             /\ IF n_steps < init_steps \/ genomes.empty
                THEN requested' = "random" /\ batch' = batch
                ELSE /\ requested' = "mutate"
                     /\ Len(batch') = batch_size
                     /\ \A j \in 1..batch_size :
                           \E c \in AllCells :
                              /\ nonzero.array[0][c]
                              /\ batch'[j] = MapGetItem(genomes, c)]_vars
    /\ [][pc = "batch" => UNCHANGED <<requests, requested>>]_vars
    /\ [](pc \in {"loop", "batch"} =>
             requests = n_steps + (IF pc = "batch" THEN 1 ELSE 0))

\* C15 witness: with init_steps = 0 the first iteration asked for a random
\* batch because the genome store was empty, and the second one mutated.
MutatedAfterForcedRandom ==
    /\ pc = "batch"
    /\ init_steps = 0
    /\ requests = 2
    /\ requested = "mutate"
    /\ Len(batch) = batch_size
    /\ ~genomes.empty

\* C16: every element of a batch handed to env.mutate is a genome, never the
\* fill value of the genome store.
MutationDrawsElites ==
    \A j \in DOMAIN batch : batch[j].tag = "genome"

\* C17: a step that evaluates a candidate of fitness +inf or -inf leaves the
\* fitness, genome and filled stores, the recycled buffer and its counter,
\* the history and the global best unchanged, and the loop goes to the next
\* candidate of the list, whatever the early-stop condition says.
InfiniteDiscarded ==
    [][(evaluated' = evaluated + 1 /\ individual'.fit \in {NegInf, PosInf}) =>
          /\ UNCHANGED <<fitnesses, genomes, nonzero, recycled, recycled_count,
                         history, max_fitness, max_genome>>
          /\ pending' = pending - 1
          /\ pending > 1 => (pc' = "batch" /\ n_steps' = n_steps)
          /\ pending = 1 => (pc' = "loop" /\ n_steps' = n_steps + 1)]_vars

\* C17 witness: a candidate of infinite fitness with a defined phenotype was
\* discarded while the global best already met the early-stop condition, and
\* the loop went on to the next candidate.
DiscardedWhileStopConditionHeld ==
    /\ pc = "batch"
    /\ individual.tag = "genome"
    /\ individual.fit \in {NegInf, PosInf}
    /\ individual.ph # <<>>
    /\ isclose(max_fitness, env_max_fitness, atol)

\* C18: a step that evaluates a candidate of finite fitness with an undefined
\* phenotype writes it to one position of the recycled buffer and counts it,
\* and leaves the fitness, genome and filled stores, the history and the
\* global best unchanged; no element of a mutation batch is an entry of the
\* recycled buffer.
RecycleLeavesArchive ==
    /\ [][(evaluated' = evaluated + 1 /\ individual'.fit \in FiniteFitness
              /\ individual'.ph = <<>>) =>
             /\ UNCHANGED <<fitnesses, genomes, nonzero, history, max_fitness,
                            max_genome>>
             /\ recycled_count' = recycled_count + 1
             /\ \E r \in DOMAIN recycled :
                   /\ recycled'[r] = individual'
                   /\ \A q \in DOMAIN recycled \ {r} : recycled'[q] = recycled[q]]_vars
    /\ [](\A j \in DOMAIN batch, r \in DOMAIN recycled :
             recycled[r] # None => batch[j] # recycled[r])

\* C18 witness: a recycled candidate had a fitness above the global best and
\* a mutation batch was drawn afterwards.
RecycledBetterThanBest ==
    /\ individual.tag = "genome"
    /\ individual.ph = <<>>
    /\ individual.fit \in FiniteFitness
    /\ max_genome # None
    /\ individual.fit > max_fitness
    /\ \E r \in DOMAIN recycled : recycled[r] = individual
    /\ requested = "mutate"

BoundedTermination ==
    /\ (pc \in {"loop", "batch"}) ~> (pc = "done")
    /\ [](pc \in {"loop", "batch"} =>
             /\ n_steps <= total_steps
             /\ requests <= total_steps)
    /\ [][(pc = "loop" /\ pc' = "done") => current_max_genome' = max_genome]_vars
    /\ [][(pc = "batch" /\ evaluated' = evaluated + 1
              /\ individual'.fit \in FiniteFitness /\ individual'.ph # <<>>) =>
             max_genome' # None]_vars
    /\ [][(pc = "batch" /\ max_genome = None /\ max_genome' # None) =>
             (individual'.fit \in FiniteFitness /\ individual'.ph # <<>>
                 /\ max_genome' = individual')]_vars
    /\ [][(pc \in {"loop", "batch"} /\ pc' # "done" /\ max_genome # None) =>
             max_genome' # None]_vars

\* C20 witness: a search in which candidates were evaluated and inserted has
\* returned and left a best genome.
ReturnedAfterAllIterations ==
    /\ pc = "done"
    /\ searches = 1
    /\ evaluated = MaxEvals
    /\ current_max_genome # None
    /\ ~genomes.empty

====
